---- MODULE Spec2Model ----
(***************************************************************************)
(* Function-call resolution of the VRL compiler:                           *)
(* lib/vrl/compiler/src/expression/function_call.rs.                       *)
(*                                                                         *)
(* One call-site is resolved per behaviour: Builder::new (lookup, arity,   *)
(* argument binding and type check, required arguments, closure            *)
(* validation), the caller's compilation of the closure block,             *)
(* Builder::compile (unbinding, return type, function.compile, abort       *)
(* check, update_state) and the runtime surface of the lowered             *)
(* FunctionCall (resolve_arguments, type_def).                             *)
(*                                                                         *)
(* Option<T> is a sequence of length 0 (None) or 1 (Some).  Positions,     *)
(* the positional cursor and function_id are 0-based as in the source;     *)
(* TLA+ sequences are 1-based, so parameter p is params[p + 1].            *)
(***************************************************************************)
EXTENDS Integers, Sequences, FiniteSets, TLC

\* Longest argument list of a call (one more than the parameters of the
\* function is never exceeded: the arity check rejects all longer lists alike).
MaxArgs == 3
\* Longest list of closure variables |v1, v2, ...| of a call.
MaxClosureVars == 2
\* Largest registry the suggestion of an undefined identifier is drawn from.
MaxIdents == 3

None == << >>
Some(x) == << x >>
IsSome(o) == Len(o) = 1
IsNone(o) == Len(o) = 0
Unwrap(o) == o[1]

Min(S) == CHOOSE x \in S : \A y \in S : x <= y

EmptyMap == [k \in {} |-> 0]
MapInsert(m, k, v) == [x \in (DOMAIN m) \cup {k} |-> IF x = k THEN v ELSE m[x]]
MapRemove(m, k) == [x \in (DOMAIN m) \ {k} |-> m[x]]

(***************************************************************************)
(* Kind lattice and TypeDef (collaborators of the resolver).               *)
(***************************************************************************)
KindAtoms == {"bytes", "integer", "array", "object"}
KindAny == KindAtoms
KindEmpty == {}
Intersects(a, b) == a \cap b # {}
IsSuperset(a, b) == b \subseteq a

\* A TypeDef: the kind, the reduced kind of the values of an object and of the
\* elements of an array (empty when the kind holds no such collection), and
\* the fallibility.
TypeDefOf(kind, okind, akind, fallible) ==
    [kind |-> kind, okind |-> okind, akind |-> akind, fallible |-> fallible]
KindIntoTypeDef(kind) == TypeDefOf(kind, KindEmpty, KindEmpty, FALSE)
WithFallibility(td, fallible) == [td EXCEPT !.fallible = fallible]
IsCollection(td) == td.kind # {} /\ td.kind \subseteq {"object", "array"}
IsObject(td) == "object" \in td.kind
IsArray(td) == "array" \in td.kind

(***************************************************************************)
(* Expressions that appear as arguments.  The type definition of an        *)
(* argument does not depend on the scope here (literals, paths, calls).    *)
(***************************************************************************)
Expr(name, kind, okind, akind, fallible) ==
    [name |-> name, type_def |-> TypeDefOf(kind, okind, akind, fallible)]
IntOne == Expr("1", {"integer"}, {}, {}, FALSE)
IntTwo == Expr("2", {"integer"}, {}, {}, FALSE)
IntThree == Expr("3", {"integer"}, {}, {}, FALSE)
Str == Expr("'s'", {"bytes"}, {}, {}, FALSE)
Path == Expr(".foo", KindAny, KindAny, KindAny, FALSE)
FallInt == Expr("to_int(.a)", {"integer"}, {}, {}, TRUE)
FallStr == Expr("to_string(.a)", {"bytes"}, {}, {}, TRUE)
Obj == Expr("{'a': 's'}", {"object"}, {"bytes"}, {}, FALSE)
Arr == Expr("[1, 2]", {"array"}, {}, {"integer"}, FALSE)
Col == Expr(".c", {"object", "array"}, {"bytes"}, {"integer"}, FALSE)

ExprTypeDef(expr) == expr.type_def

\* A FunctionArgument: an optional keyword and an expression.
NoKeyword == "-"
Argument(keyword, expr) == [keyword |-> keyword, expr |-> expr]

(***************************************************************************)
(* The function registry handed to Builder::new.                           *)
(***************************************************************************)
Parameter(keyword, kind, required) ==
    [keyword |-> keyword, kind |-> kind, required |-> required]
VarExact(kind) == [tag |-> "Exact", kind |-> kind]
VarTarget == [tag |-> "Target", kind |-> KindEmpty]
VarTargetInnerValue == [tag |-> "TargetInnerValue", kind |-> KindEmpty]
VarTargetInnerKey == [tag |-> "TargetInnerKey", kind |-> KindEmpty]
Input(parameter_keyword, kind, variables, output) ==
    [parameter_keyword |-> parameter_keyword, kind |-> kind,
     variables |-> variables, output |-> output,
     example |-> [source |-> << "closure over", parameter_keyword >>]]

TestFn ==
    [identifier |-> "test",
     parameters |-> << Parameter("one", {"integer"}, FALSE),
                       Parameter("two", {"integer"}, FALSE),
                       Parameter("three", {"integer"}, FALSE) >>,
     closure |-> None]
SliceFn ==
    [identifier |-> "slice",
     parameters |-> << Parameter("value", {"bytes", "array"}, TRUE),
                       Parameter("start", {"integer"}, TRUE) >>,
     closure |-> None]
ForEachFn ==
    [identifier |-> "for_each",
     parameters |-> << Parameter("value", {"object", "array"}, TRUE) >>,
     closure |-> Some([inputs |->
         << Input("value", {"object", "array"},
                  << VarTargetInnerKey, VarTargetInnerValue >>, KindAny) >>])]
MapKeysFn ==
    [identifier |-> "map_keys",
     parameters |-> << Parameter("value", {"object"}, TRUE) >>,
     closure |-> Some([inputs |->
         << Input("value", {"object"}, << VarExact({"bytes"}) >>, {"bytes"}) >>])]
\* A function whose closure declares two inputs, on different parameters and
\* with different numbers of variables.
ZipEachFn ==
    [identifier |-> "zip_each",
     parameters |-> << Parameter("value", {"object", "array", "bytes"}, FALSE),
                       Parameter("other", {"object", "array", "bytes"}, FALSE) >>,
     closure |-> Some([inputs |->
         << Input("value", {"object"}, << VarTarget >>, KindAny),
            Input("other", {"array", "bytes"},
                  << VarTargetInnerKey, VarTargetInnerValue >>, KindAny) >>])]
\* A later registration under an identifier that is already taken.
TestFnAgain ==
    [identifier |-> "test",
     parameters |-> << Parameter("one", {"integer"}, FALSE) >>,
     closure |-> None]
Funcs == << TestFn, SliceFn, ForEachFn, MapKeysFn, TestFnAgain, ZipEachFn >>

FunctionOf(id) == Funcs[id + 1]

(***************************************************************************)
(* The call-sites the model resolves.                                      *)
(***************************************************************************)
CallIdents == {"test", "slice", "for_each", "map_keys", "zip_each", "tset"}
Defined(id) == \E i \in 1..Len(Funcs) : Funcs[i].identifier = id
Lookup(id) == Funcs[Min({i \in 1..Len(Funcs) : Funcs[i].identifier = id})]

ArgExprs(f) ==
    CASE f.identifier = "test" -> {IntOne, IntTwo, IntThree}
      [] f.identifier = "slice" -> {IntOne, Str, Path, FallInt, FallStr}
      [] f.identifier = "zip_each" -> {Obj, Arr, Str}
      [] OTHER -> {Obj, Arr, Col, Path, IntOne}
ArgKeywords(f) ==
    (IF f.identifier = "zip_each" THEN {NoKeyword} ELSE {NoKeyword, "bogus"})
        \cup {f.parameters[i].keyword : i \in 1..Len(f.parameters)}
ArgChoices(f) == {Argument(k, e) : k \in ArgKeywords(f), e \in ArgExprs(f)}
SeqsUpTo(S, n) == UNION {[1..m -> S] : m \in 0..n}
ArgLists(f) ==
    SeqsUpTo(ArgChoices(f),
             IF MaxArgs < Len(f.parameters) + 1 THEN MaxArgs ELSE Len(f.parameters) + 1)
ClosureVarLists == SeqsUpTo({"k", "v"}, MaxClosureVars)

\* Bindings the scope may hold before the call-site is resolved.
PreDetails(id) ==
    [type_def |-> KindIntoTypeDef(IF id = "k" THEN {"bytes"} ELSE {"integer"}),
     value |-> None]
LocalChoices == {[id \in D |-> PreDetails(id)] : D \in SUBSET {"k", "x"}}

\* The context bag external holds before the call, and the fresh AnyMap.
InitialContext == {"TimeZone"}
EmptyContext == {}

VARIABLES
    ident, abort_on_error, arguments, closure_variables,   \* the call-site
    local, local_snapshot, external_context,               \* compiler state
    caller_local,                  \* the scope just before Builder::new
    pc, err,                                               \* position, returned Err
    function_id, index, argi, list, maybe_fallible_arguments, bound, closure,
    block, closure_fallible, compile_ctx, expr, update_state_calls, call,
    resolved, call_type_def,
    diagnostic            \* what code(), labels(), notes() returned for err

vars == << ident, abort_on_error, arguments, closure_variables, caller_local,
           local, local_snapshot, external_context, pc, err,
           function_id, index, argi, list, maybe_fallible_arguments, bound,
           closure, block, closure_fallible, compile_ctx, expr,
           update_state_calls, call, resolved, call_type_def, diagnostic >>

callsite == << ident, abort_on_error, arguments, closure_variables, caller_local,
              local_snapshot >>
builder == << function_id, index, argi, list, maybe_fallible_arguments, bound, closure >>
finaliser == << block, closure_fallible, compile_ctx, expr, update_state_calls, call >>
runtime == << resolved, call_type_def >>

EmptyList == [arguments |-> EmptyMap, closure |-> None]
NoDiagnostic == [code |-> None, labels |-> None, notes |-> None]

Blank ==
    /\ pc = "new"
    /\ err = None
    /\ function_id = None
    /\ index = 0
    /\ argi = 0
    /\ list = EmptyList
    /\ maybe_fallible_arguments = FALSE
    /\ bound = << >>
    /\ closure = None
    /\ block = None
    /\ closure_fallible = FALSE
    /\ compile_ctx = None
    /\ expr = None
    /\ update_state_calls = 0
    /\ call = None
    /\ resolved = None
    /\ call_type_def = None
    /\ diagnostic = NoDiagnostic

Init ==
    /\ ident \in CallIdents
    /\ abort_on_error \in BOOLEAN
    /\ arguments \in (IF Defined(ident) THEN ArgLists(Lookup(ident))
                      ELSE {<< >>, << Argument(NoKeyword, IntOne) >>})
    /\ closure_variables \in
           (IF Defined(ident) /\ IsSome(Lookup(ident).closure)
            THEN {None} \cup {Some(v) : v \in ClosureVarLists}
            ELSE {None, Some(<< "k" >>)})
    /\ local \in (IF Defined(ident) /\ IsSome(Lookup(ident).closure)
                     /\ ident # "zip_each"
                  THEN LocalChoices
                  ELSE {[id \in {"x"} |-> PreDetails(id)]})
    /\ local_snapshot = local
    /\ caller_local = local
    /\ external_context = InitialContext
    /\ Blank

(***************************************************************************)
(* Builder::new                                                            *)
(***************************************************************************)
Fail(e) == /\ err' = Some(e)
           /\ pc' = "new_err"

\* The lookup that returns the last registration of the identifier.
FindFunctionLast(funcs, id) ==
    LET hits == {i \in 1..Len(funcs) : funcs[i].identifier = id}
    IN  IF hits = {} THEN None ELSE Some((CHOOSE i \in hits : \A j \in hits : j <= i) - 1)

\* The arity check that lets one argument too many through.
TooManyArgumentsOffByOne(args, params) == Len(args) > Len(params) + 1

\* Lines 67-80: the arity check.
TooManyArguments(args, params) == Len(args) > Len(params)

\* Lines 46-65: the function lookup, the position of the first registry entry
\* with the identifier.
FindFunction(funcs, id) ==
    LET hits == {i \in 1..Len(funcs) : funcs[i].identifier = id}
    IN  IF hits = {} THEN None ELSE Some(Min(hits) - 1)

NewLookup ==
    /\ pc = "new"
    /\ LET found == FindFunction(Funcs, ident) IN
       IF IsNone(found)
       THEN /\ Fail([kind |-> "Undefined", ident |-> ident,
                     idents |-> [i \in 1..Len(Funcs) |-> Funcs[i].identifier]])
            /\ UNCHANGED function_id
       ELSE /\ function_id' = found
            /\ IF TooManyArguments(arguments, FunctionOf(Unwrap(found)).parameters)
               THEN Fail([kind |-> "WrongNumberOfArgs",
                          max |-> Len(FunctionOf(Unwrap(found)).parameters)])
               ELSE /\ pc' = "bind"
                    /\ UNCHANGED err
    /\ UNCHANGED << callsite, local, external_context, index, argi, list,
                    maybe_fallible_arguments, bound, closure, finaliser, runtime, diagnostic >>

\* Lines 102-106: the position of the parameter with the keyword, or -1.
KeywordPosition(params, k) ==
    LET hits == {i \in 1..Len(params) : params[i].keyword = k}
    IN  IF hits = {} THEN -1 ELSE Min(hits) - 1

\* Lines 94-114: the parameter an argument is bound to (pos, -1 for none) and
\* the positional cursor after it.
MatchParameter(params, cursor, keyword) ==
    IF keyword = NoKeyword
    THEN [pos |-> IF cursor < Len(params) THEN cursor ELSE -1, index |-> cursor + 1]
    ELSE LET pos == KeywordPosition(params, keyword)
         IN  [pos |-> pos, index |-> IF pos = cursor THEN cursor + 1 ELSE cursor]

\* The type check without the test of the argument's fallibility.
CheckArgumentKindOnly(parameter, type_def) ==
    IF ~Intersects(parameter.kind, type_def.kind) THEN "InvalidArgumentKind" ELSE "Ok"

\* The type check with the fallibility test before the kind test.
CheckArgumentFallibleFirst(parameter, type_def) ==
    IF type_def.fallible THEN "FallibleArgument"
    ELSE IF ~Intersects(parameter.kind, type_def.kind) THEN "InvalidArgumentKind"
    ELSE "Ok"

\* Lines 126-148: the verdict of the type check of one bound argument.
CheckArgument(parameter, type_def) ==
    IF ~Intersects(parameter.kind, type_def.kind) THEN "InvalidArgumentKind"
    ELSE IF type_def.fallible THEN "FallibleArgument"
    ELSE "Ok"

\* The partial-match test with the negation of is_superset dropped.
PartialMatchInverted(parameter, type_def) ==
    /\ Intersects(parameter.kind, type_def.kind)
    /\ IsSuperset(parameter.kind, type_def.kind)

\* Lines 139-141: the argument matches the parameter only in part.
PartialMatch(parameter, type_def) ==
    /\ Intersects(parameter.kind, type_def.kind)
    /\ ~IsSuperset(parameter.kind, type_def.kind)

\* Line 150: ArgumentList::insert.
ListInsert(l, keyword, e) == [l EXCEPT !.arguments = MapInsert(l.arguments, keyword, e)]

\* Lines 87-90: the binder's state before the first argument.
BinderStart ==
    [index |-> 0, list |-> EmptyList, maybe_fallible_arguments |-> FALSE,
     bound |-> << >>, err |-> None, panic |-> FALSE]

\* Lines 91-151: one iteration of the loop over the arguments.  bound records
\* the position of the parameter matched in each iteration.
BindArgument(params, b, argument) ==
    LET m == MatchParameter(params, b.index, argument.keyword) IN
    IF m.pos = -1
    THEN IF argument.keyword = NoKeyword
         THEN \* keyword_span().expect("exists") on a positional argument
              [b EXCEPT !.index = m.index, !.panic = TRUE]
         ELSE [b EXCEPT !.index = m.index,
                        !.err = Some([kind |-> "UnknownKeyword",
                                      keywords |-> [i \in 1..Len(params) |->
                                                       params[i].keyword]])]
    ELSE LET parameter == params[m.pos + 1]
             type_def == ExprTypeDef(argument.expr)
             verdict == CheckArgument(parameter, type_def)
             seen == [b EXCEPT !.index = m.index,
                               !.bound = Append(b.bound, m.pos),
                               !.maybe_fallible_arguments =
                                   (b.maybe_fallible_arguments
                                    \/ PartialMatch(parameter, type_def))]
         IN  IF verdict = "InvalidArgumentKind"
             THEN [seen EXCEPT !.err = Some([kind |-> "InvalidArgumentKind",
                                             parameter |-> parameter,
                                             got |-> type_def.kind,
                                             argument |-> argument])]
             ELSE IF verdict = "FallibleArgument"
             THEN [seen EXCEPT !.err = Some([kind |-> "FallibleArgument",
                                             argument |-> argument])]
             ELSE [seen EXCEPT !.list = ListInsert(seen.list, parameter.keyword,
                                                   argument.expr)]

NewBindArgument ==
    /\ pc = "bind"
    /\ argi < Len(arguments)
    /\ LET b == BindArgument(FunctionOf(Unwrap(function_id)).parameters,
                             [index |-> index, list |-> list,
                              maybe_fallible_arguments |-> maybe_fallible_arguments,
                              bound |-> bound, err |-> None, panic |-> FALSE],
                             arguments[argi + 1])
       IN  /\ index' = b.index
           /\ list' = b.list
           /\ maybe_fallible_arguments' = b.maybe_fallible_arguments
           /\ bound' = b.bound
           /\ err' = b.err
           /\ pc' = IF b.panic THEN "panic" ELSE IF IsSome(b.err) THEN "new_err" ELSE "bind"
           /\ argi' = IF b.panic \/ IsSome(b.err) THEN argi ELSE argi + 1
    /\ UNCHANGED << callsite, local, external_context, function_id, closure,
                    finaliser, runtime, diagnostic >>

\* Lines 153-159: the required parameters whose keyword is not bound.
MissingRequired(params, l) ==
    {i \in 1..Len(params) :
        params[i].required /\ params[i].keyword \notin DOMAIN l.arguments}

\* The required-argument check reporting the last missing parameter.
MissingArgumentLast(params, l) ==
    LET missing == {i \in 1..Len(params) :
                       params[i].required /\ params[i].keyword \notin DOMAIN l.arguments}
        last == CHOOSE i \in missing : \A j \in missing : j <= i
    IN  IF missing = {} THEN None
        ELSE Some([kind |-> "MissingArgument",
                   keyword |-> params[last].keyword,
                   position |-> last - 1])

\* Lines 160-166: try_for_each returns the error of the first of them.
MissingArgument(params, l) ==
    LET missing == MissingRequired(params, l) IN
    IF missing = {} THEN None
    ELSE Some([kind |-> "MissingArgument",
               keyword |-> params[Min(missing)].keyword,
               position |-> Min(missing) - 1])

NewCheckRequired ==
    /\ pc = "bind"
    /\ argi = Len(arguments)
    /\ LET e == MissingArgument(FunctionOf(Unwrap(function_id)).parameters, list) IN
       /\ err' = e
       /\ pc' = IF IsSome(e) THEN "new_err" ELSE "closure"
    /\ UNCHANGED << callsite, local, external_context, builder, finaliser, runtime, diagnostic >>

\* The scan that reports the first kind it rejected instead of the last.
RECURSIVE ScanInputsFirstMismatch(_, _, _, _)
ScanInputsFirstMismatch(inputs, i, args, err_found_type_def) ==
    IF i > Len(inputs)
    THEN [matched |-> None, err_found_type_def |-> err_found_type_def]
    ELSE LET input == inputs[i] IN
         IF input.parameter_keyword \notin DOMAIN args
         THEN ScanInputsFirstMismatch(inputs, i + 1, args, err_found_type_def)
         ELSE LET type_def == ExprTypeDef(args[input.parameter_keyword]) IN
              IF ~IsSuperset(input.kind, type_def.kind)
              THEN ScanInputsFirstMismatch(inputs, i + 1, args,
                       IF IsSome(err_found_type_def) THEN err_found_type_def
                       ELSE Some(type_def.kind))
              ELSE [matched |-> Some([input |-> input,
                                      target |-> args[input.parameter_keyword]]),
                    err_found_type_def |-> err_found_type_def]

\* Lines 190-225: the scan of the closure inputs, in declaration order.
RECURSIVE ScanInputs(_, _, _, _)
ScanInputs(inputs, i, args, err_found_type_def) ==
    IF i > Len(inputs)
    THEN [matched |-> None, err_found_type_def |-> err_found_type_def]
    ELSE LET input == inputs[i] IN
         IF input.parameter_keyword \notin DOMAIN args
         THEN ScanInputs(inputs, i + 1, args, err_found_type_def)
         ELSE LET type_def == ExprTypeDef(args[input.parameter_keyword]) IN
              IF ~IsSuperset(input.kind, type_def.kind)
              THEN ScanInputs(inputs, i + 1, args, Some(type_def.kind))
              ELSE [matched |-> Some([input |-> input,
                                      target |-> args[input.parameter_keyword]]),
                    err_found_type_def |-> err_found_type_def]

\* Expression::as_value: the value of a literal target.
AsValue(target) == IF target \in {Path, Col, FallInt, FallStr} THEN None ELSE Some(target.name)

\* The details that leave the key of a target that may be no collection
\* without a kind.
VariableDetailsKeyOfCollection(input_var, target) ==
    LET type_def == ExprTypeDef(target) IN
    CASE input_var.tag = "Exact" ->
            [type_def |-> KindIntoTypeDef(input_var.kind), value |-> None]
      [] input_var.tag = "Target" ->
            [type_def |-> type_def, value |-> AsValue(target)]
      [] input_var.tag = "TargetInnerValue" ->
            [type_def |-> KindIntoTypeDef(IF IsObject(type_def) THEN type_def.okind
                                          ELSE IF IsArray(type_def) THEN type_def.akind
                                          ELSE KindAny),
             value |-> None]
      [] input_var.tag = "TargetInnerKey" ->
            [type_def |-> KindIntoTypeDef(
                 (IF IsObject(type_def) THEN {"bytes"} ELSE {})
                 \cup (IF IsArray(type_def) THEN {"integer"} ELSE {})),
             value |-> None]

\* Lines 274-334: the details a closure variable is bound to.
VariableDetails(input_var, target) ==
    LET type_def == ExprTypeDef(target) IN
    CASE input_var.tag = "Exact" ->
            [type_def |-> KindIntoTypeDef(input_var.kind), value |-> None]
      [] input_var.tag = "Target" ->
            [type_def |-> type_def, value |-> AsValue(target)]
      [] input_var.tag = "TargetInnerValue" ->
            [type_def |-> KindIntoTypeDef(IF IsObject(type_def) THEN type_def.okind
                                          ELSE IF IsArray(type_def) THEN type_def.akind
                                          ELSE KindAny),
             value |-> None]
      [] input_var.tag = "TargetInnerKey" ->
            [type_def |-> KindIntoTypeDef(
                 IF ~IsCollection(type_def) THEN KindAny
                 ELSE (IF IsObject(type_def) THEN {"bytes"} ELSE {})
                      \cup (IF IsArray(type_def) THEN {"integer"} ELSE {})),
             value |-> None]

\* LocalEnv::insert_variable and LocalEnv::remove_variable.
InsertVariable(env, id, details) == MapInsert(env, id, details)
RemoveVariable(env, id) == MapRemove(env, id)

\* Lines 272-337: the closure variables inserted into local, in order.
RECURSIVE BindVariables(_, _, _, _, _)
BindVariables(env, input_variables, variables, target, i) ==
    IF i > Len(input_variables) THEN env
    ELSE BindVariables(
             InsertVariable(env, variables[i], VariableDetails(input_variables[i], target)),
             input_variables, variables, target, i + 1)

\* The closure check that binds the first closure variable before it checks
\* the arity.
ClosureCheckBindingFirst(function, l, variables_opt, env) ==
    LET definition == function.closure
        failed(e) == [err |-> Some(e), closure |-> None, local |-> env]
    IN
    IF IsNone(definition) /\ IsSome(variables_opt)
    THEN failed([kind |-> "UnexpectedClosure"])
    ELSE IF IsSome(definition) /\ IsNone(variables_opt)
    THEN failed([kind |-> "MissingClosure",
                 example |-> IF Len(Unwrap(definition).inputs) > 0
                             THEN Some(Unwrap(definition).inputs[1].example)
                             ELSE None])
    ELSE IF IsSome(definition) /\ IsSome(variables_opt)
    THEN LET variables == Unwrap(variables_opt)
             scan == ScanInputs(Unwrap(definition).inputs, 1, l.arguments, None)
         IN  IF IsNone(scan.matched)
             THEN failed([kind |-> "ClosureParameterTypeMismatch",
                          found_kind |-> IF IsSome(scan.err_found_type_def)
                                         THEN Unwrap(scan.err_found_type_def)
                                         ELSE KindAny])
             ELSE LET input == Unwrap(scan.matched).input
                      target == Unwrap(scan.matched).target
                  IN  IF Len(input.variables) # Len(variables)
                      THEN [err |-> Some([kind |-> "ClosureArityMismatch",
                                          expected |-> Len(input.variables),
                                          supplied |-> Len(variables)]),
                            closure |-> None,
                            local |-> IF Len(variables) > 0
                                      THEN InsertVariable(env, variables[1],
                                               VariableDetails(input.variables[1], target))
                                      ELSE env]
                      ELSE [err |-> None,
                            closure |-> Some([variables |-> variables, input |-> input]),
                            local |-> BindVariables(env, input.variables, variables,
                                                    target, 1)]
    ELSE [err |-> None, closure |-> None, local |-> env]

\* Lines 168-351: the closure validity check: the error, or the closure of
\* the builder and the scope with the closure variables inserted.
ClosureCheck(function, l, variables_opt, env) ==
    LET definition == function.closure
        failed(e) == [err |-> Some(e), closure |-> None, local |-> env]
    IN
    IF IsNone(definition) /\ IsSome(variables_opt)
    THEN failed([kind |-> "UnexpectedClosure"])
    ELSE IF IsSome(definition) /\ IsNone(variables_opt)
    THEN failed([kind |-> "MissingClosure",
                 example |-> IF Len(Unwrap(definition).inputs) > 0
                             THEN Some(Unwrap(definition).inputs[1].example)
                             ELSE None])
    ELSE IF IsSome(definition) /\ IsSome(variables_opt)
    THEN LET variables == Unwrap(variables_opt)
             scan == ScanInputs(Unwrap(definition).inputs, 1, l.arguments, None)
         IN  IF IsNone(scan.matched)
             THEN failed([kind |-> "ClosureParameterTypeMismatch",
                          found_kind |-> IF IsSome(scan.err_found_type_def)
                                         THEN Unwrap(scan.err_found_type_def)
                                         ELSE KindAny])
             ELSE LET input == Unwrap(scan.matched).input
                      target == Unwrap(scan.matched).target
                  IN  IF Len(input.variables) # Len(variables)
                      THEN failed([kind |-> "ClosureArityMismatch",
                                   expected |-> Len(input.variables),
                                   supplied |-> Len(variables)])
                      ELSE [err |-> None,
                            closure |-> Some([variables |-> variables, input |-> input]),
                            local |-> BindVariables(env, input.variables, variables,
                                                    target, 1)]
    ELSE [err |-> None, closure |-> None, local |-> env]

NewClosure ==
    /\ pc = "closure"
    /\ LET c == ClosureCheck(FunctionOf(Unwrap(function_id)), list,
                             closure_variables, local)
       IN  /\ err' = c.err
           /\ closure' = c.closure
           /\ local' = c.local
           /\ pc' = IF IsSome(c.err) THEN "new_err" ELSE "built"
    /\ UNCHANGED << callsite, external_context, function_id, index,
                    argi, list, maybe_fallible_arguments, bound, finaliser, runtime, diagnostic >>

\* Lines 91-151: the loop over the arguments, left when an argument fails.
RECURSIVE BindAll(_, _, _, _)
BindAll(params, b, args, i) ==
    IF i > Len(args) \/ IsSome(b.err) \/ b.panic THEN b
    ELSE BindAll(params, BindArgument(params, b, args[i]), args, i + 1)

\* Lines 67-364: Builder::new on a function that was found: the error, or
\* the argument list, the partial-match flag and the closure of the builder.
BuilderNew(function, args, variables_opt, env) ==
    LET params == function.parameters
        failed(e, b) == [err |-> e, list |-> b.list, closure |-> None, local |-> env,
                         maybe_fallible_arguments |-> b.maybe_fallible_arguments]
    IN
    IF TooManyArguments(args, params)
    THEN failed(Some([kind |-> "WrongNumberOfArgs", max |-> Len(params)]), BinderStart)
    ELSE LET b == BindAll(params, BinderStart, args, 1) IN
         IF IsSome(b.err) \/ b.panic THEN failed(b.err, b)
         ELSE IF IsSome(MissingArgument(params, b.list))
         THEN failed(MissingArgument(params, b.list), b)
         ELSE LET c == ClosureCheck(function, b.list, variables_opt, env) IN
              [err |-> c.err, list |-> b.list, closure |-> c.closure, local |-> c.local,
               maybe_fallible_arguments |-> b.maybe_fallible_arguments]

(***************************************************************************)
(* The caller compiles the closure block in the extended scope, then       *)
(* calls Builder::compile.  Compiling the block leaves local as it is.     *)
(***************************************************************************)
Blocks == {TypeDefOf(k, {}, {}, f) : k \in {{"integer"}, {"bytes"}}, f \in BOOLEAN}

CompileBlock ==
    /\ pc = "built"
    /\ IF IsSome(closure_variables)
       THEN \E b \in Blocks : block' = Some(b)
       ELSE block' = None
    /\ pc' = "compile"
    /\ UNCHANGED << callsite, local, external_context, err, builder,
                    closure_fallible, compile_ctx, expr, update_state_calls, call,
                    runtime, diagnostic >>

(***************************************************************************)
(* Builder::compile                                                        *)
(***************************************************************************)
FailCompile(e) == /\ err' = Some(e)
                  /\ pc' = "compile_err"

\* The finaliser that leaves the closure variables bound.
UnbindNothing(env, snapshot, variables, i) == [local |-> env, local_snapshot |-> snapshot]

\* Lines 382-389: the closure variables are unbound one by one; a variable
\* found in the snapshot is taken out of the snapshot and restored.
RECURSIVE Unbind(_, _, _, _)
Unbind(env, snapshot, variables, i) ==
    IF i > Len(variables) THEN [local |-> env, local_snapshot |-> snapshot]
    ELSE LET id == variables[i] IN
         IF id \in DOMAIN snapshot
         THEN Unbind(InsertVariable(env, id, snapshot[id]),
                     RemoveVariable(snapshot, id), variables, i + 1)
         ELSE Unbind(RemoveVariable(env, id), snapshot, variables, i + 1)

\* Lines 376-411: the closure of the call, after the block was compiled.
CompileClosure ==
    /\ pc = "compile"
    /\ IF IsSome(closure)
       THEN LET variables == Unwrap(closure).variables
                input == Unwrap(closure).input
                u == Unbind(local, local_snapshot, variables, 1)
                found_kind == Unwrap(block).kind
                expected_kind == input.output
            IN  /\ local' = u.local
                /\ local_snapshot' = u.local_snapshot
                /\ closure_fallible' = Unwrap(block).fallible
                /\ IF ~IsSuperset(expected_kind, found_kind)
                   THEN /\ FailCompile([kind |-> "ReturnTypeMismatch",
                                        found_kind |-> found_kind,
                                        expected_kind |-> expected_kind])
                        /\ UNCHANGED list
                   ELSE /\ list' = [list EXCEPT !.closure =
                                       Some([variables |-> variables,
                                             block |-> Unwrap(block)])]
                        /\ pc' = "function"
                        /\ UNCHANGED err
       ELSE /\ pc' = "function"
            /\ UNCHANGED << local, local_snapshot, closure_fallible, list, err >>
    /\ UNCHANGED << ident, abort_on_error, arguments, closure_variables,
                    caller_local, external_context, function_id, index, argi,
                    maybe_fallible_arguments, bound, closure, block, compile_ctx,
                    expr, update_state_calls, call, runtime, diagnostic >>

\* ExternalEnv::swap_external_context: the new slot content and the old one.
SwapExternalContext(slot, new) == [slot |-> new, previous |-> slot]

\* A diagnostic of a plugin: its code, its labels (primary or context, a
\* message, a span) and its notes.
Label(primary, message, span) == [primary |-> primary, message |-> message, span |-> span]
Message(text, args) == [text |-> text, args |-> args]
PluginError(code, labels, notes) == [code |-> code, labels |-> labels, notes |-> notes]
PluginFailure ==
    PluginError(0, << Label(TRUE, Message("invalid regex", << >>), "pattern_span") >>, << >>)

\* What Function::compile may return: a lowered expression of some type
\* definition, or a diagnostic; and what it may leave in the context bag.
CompiledExprs == {TypeDefOf(k, {}, {}, f) : k \in {{"integer"}, {"bytes"}}, f \in BOOLEAN}
PluginContexts(bag) == {bag, bag \cup {"plugin"}}

\* Lines 416-430: the context bag is swapped out, the function compiled, and
\* the bag of the compile context swapped back in.
CompileFunction ==
    /\ pc = "function"
    /\ LET out == SwapExternalContext(external_context, EmptyContext) IN
       \E bag \in PluginContexts(out.previous) :
          /\ compile_ctx' = Some(bag)
          /\ \/ \E e \in CompiledExprs :
                   /\ expr' = Some(e)
                   /\ external_context' = SwapExternalContext(out.slot, bag).slot
                   /\ pc' = "abort"
                   /\ UNCHANGED err
             \/ /\ FailCompile([kind |-> "Compilation", error |-> PluginFailure])
                /\ external_context' = out.slot
                /\ UNCHANGED expr
    /\ UNCHANGED << callsite, local, builder, block, closure_fallible,
                    update_state_calls, call, runtime, diagnostic >>

\* The abort check that does not look at the partial-match flag.
AbortIsInfallibleIgnoringArguments(abort, maybe_fallible, expr_type_def) ==
    abort /\ ~expr_type_def.fallible

\* Lines 432-443: the abort-on-error sanity check.
AbortIsInfallible(abort, maybe_fallible, expr_type_def) ==
    abort /\ ~maybe_fallible /\ ~expr_type_def.fallible

CompileAbortCheck ==
    /\ pc = "abort"
    /\ IF AbortIsInfallible(abort_on_error, maybe_fallible_arguments, Unwrap(expr))
       THEN FailCompile([kind |-> "AbortInfallible"])
       ELSE /\ pc' = "update"
            /\ UNCHANGED err
    /\ UNCHANGED << callsite, local, external_context, builder, finaliser, runtime, diagnostic >>

\* The lowered call built without its closure.
FunctionCallWithoutClosure ==
    [abort_on_error |-> abort_on_error,
     expr |-> Unwrap(expr),
     maybe_fallible_arguments |-> maybe_fallible_arguments,
     closure_fallible |-> closure_fallible,
     closure |-> None,
     ident |-> FunctionOf(Unwrap(function_id)).identifier,
     function_id |-> Unwrap(function_id),
     arguments |-> arguments]

\* Lines 452-462: the lowered call.
FunctionCall ==
    [abort_on_error |-> abort_on_error,
     expr |-> Unwrap(expr),
     maybe_fallible_arguments |-> maybe_fallible_arguments,
     closure_fallible |-> closure_fallible,
     closure |-> list.closure,
     ident |-> FunctionOf(Unwrap(function_id)).identifier,
     function_id |-> Unwrap(function_id),
     arguments |-> arguments]

\* Lines 445-463: update_state, then the FunctionCall is returned.
CompileUpdateState ==
    /\ pc = "update"
    /\ update_state_calls' = update_state_calls + 1
    /\ \/ /\ call' = Some(FunctionCall)
          /\ pc' = "done"
          /\ UNCHANGED err
       \/ /\ FailCompile([kind |-> "UpdateState", error |-> "update failed"])
          /\ UNCHANGED call
    /\ UNCHANGED << callsite, local, external_context, builder, block,
                    closure_fallible, compile_ctx, expr, runtime, diagnostic >>

(***************************************************************************)
(* The runtime surface of the lowered FunctionCall.                        *)
(***************************************************************************)
\* The result vector that is one slot short.
EmptySlotsOneShort(params) ==
    [i \in 1..(Len(params) - 1) |-> [keyword |-> params[i].keyword, arg |-> None]]

\* Lines 499-503: one empty slot per parameter, labelled with its keyword.
EmptySlots(params) == [i \in 1..Len(params) |-> [keyword |-> params[i].keyword, arg |-> None]]

\* Lines 508-523: the keyword arguments take the slot of their parameter, the
\* others are collected in source order.
RECURSIVE PlaceNamed(_, _, _, _, _)
PlaceNamed(params, args, i, result, unnamed) ==
    IF i > Len(args) THEN [status |-> "Ok", result |-> result, unnamed |-> unnamed]
    ELSE IF args[i].keyword = NoKeyword
    THEN PlaceNamed(params, args, i + 1, result, Append(unnamed, args[i]))
    ELSE LET pos == KeywordPosition(params, args[i].keyword) IN
         IF pos = -1
         THEN [status |-> "Err", result |-> result, unnamed |-> unnamed]
         ELSE PlaceNamed(params, args, i + 1,
                         [result EXCEPT ![pos + 1].arg = Some(args[i])], unnamed)

\* The search for the next empty slot that does not skip the filled ones.
NextEmptyNoSkip(result, pos) == pos

\* Lines 528-530: the next empty slot at or after pos; Len(result) when the
\* search runs off the end of the vector (an index out of bounds).
RECURSIVE NextEmpty(_, _)
NextEmpty(result, pos) ==
    IF pos >= Len(result) THEN Len(result)
    ELSE IF IsSome(result[pos + 1].arg) THEN NextEmpty(result, pos + 1)
    ELSE pos

\* Lines 526-537: the remaining arguments fill the empty slots in order.
RECURSIVE PlaceUnnamed(_, _, _, _)
PlaceUnnamed(result, unnamed, i, pos) ==
    IF i > Len(unnamed) THEN [status |-> "Ok", result |-> result]
    ELSE LET next == NextEmpty(result, pos) IN
         IF next >= Len(result)
         THEN [status |-> "Panic", result |-> result]
         ELSE PlaceUnnamed([result EXCEPT ![next + 1].arg = Some(unnamed[i])],
                           unnamed, i + 1, next)

\* Lines 495-540: FunctionCall::resolve_arguments.
ResolveArgumentsOf(args, function) ==
    LET named == PlaceNamed(function.parameters, args, 1,
                            EmptySlots(function.parameters), << >>)
    IN  IF named.status = "Err" THEN [status |-> "Err", result |-> named.result]
        ELSE PlaceUnnamed(named.result, named.unnamed, 1, 0)

ResolveArguments ==
    /\ pc = "done"
    /\ IsNone(resolved)
    /\ resolved' = Some(ResolveArgumentsOf(Unwrap(call).arguments,
                                           FunctionOf(Unwrap(call).function_id)))
    /\ UNCHANGED << callsite, local, external_context, pc, err, builder, finaliser,
                    call_type_def, diagnostic >>

\* type_def with the abort-on-error override applied first instead of last.
FunctionCallTypeDefAbortFirst(c) ==
    LET t0 == IF c.abort_on_error THEN WithFallibility(c.expr, FALSE) ELSE c.expr
        t1 == IF c.maybe_fallible_arguments THEN WithFallibility(t0, TRUE) ELSE t0
    IN  IF c.closure_fallible THEN WithFallibility(t1, TRUE) ELSE t1

\* Lines 586-670: FunctionCall::type_def.
FunctionCallTypeDef(c) ==
    LET t0 == c.expr
        t1 == IF c.maybe_fallible_arguments THEN WithFallibility(t0, TRUE) ELSE t0
        t2 == IF c.closure_fallible THEN WithFallibility(t1, TRUE) ELSE t1
    IN  IF c.abort_on_error THEN WithFallibility(t2, FALSE) ELSE t2

TypeDef ==
    /\ pc = "done"
    /\ IsNone(call_type_def)
    /\ call_type_def' = Some(FunctionCallTypeDef(Unwrap(call)))
    /\ UNCHANGED << callsite, local, external_context, pc, err, builder, finaliser,
                    resolved, diagnostic >>

Next ==
    \/ NewLookup
    \/ NewBindArgument
    \/ NewCheckRequired
    \/ NewClosure
    \/ CompileBlock
    \/ CompileClosure
    \/ CompileFunction
    \/ CompileAbortCheck
    \/ CompileUpdateState
    \/ ResolveArguments
    \/ TypeDef

Spec == Init /\ [][Next]_vars

(***************************************************************************)
(* FunctionCall::type_def on every lowered call: the fields of the call    *)
(* are drawn freely, type_def is applied to it.                            *)
(***************************************************************************)
AnyTypeDefs == {TypeDefOf(k, {}, {}, f) : k \in (SUBSET KindAtoms) \ {{}}, f \in BOOLEAN}

InitTypeDef ==
    /\ ident = "test"
    /\ arguments = << >>
    /\ closure_variables = None
    /\ local = EmptyMap
    /\ local_snapshot = EmptyMap
    /\ caller_local = EmptyMap
    /\ external_context = InitialContext
    /\ pc = "done"
    /\ err = None
    /\ function_id = Some(0)
    /\ index = 0
    /\ argi = 0
    /\ list = EmptyList
    /\ bound = << >>
    /\ closure = None
    /\ block = None
    /\ compile_ctx = Some(InitialContext)
    /\ update_state_calls = 1
    /\ abort_on_error \in BOOLEAN
    /\ maybe_fallible_arguments \in BOOLEAN
    /\ closure_fallible \in BOOLEAN
    /\ expr \in {Some(t) : t \in AnyTypeDefs}
    /\ call = Some(FunctionCall)
    /\ resolved = None
    /\ call_type_def = None
    /\ diagnostic = NoDiagnostic

SpecTypeDef == InitTypeDef /\ [][TypeDef]_vars

(***************************************************************************)
(* DiagnosticMessage for Error: code(), labels() and notes().  Identifiers *)
(* are spelled out as sequences of characters here, and a span is named by *)
(* the field of the error that holds it.                                   *)
(***************************************************************************)
\* The code() that numbers the variants in declaration order.
CodeInDeclarationOrder(e) ==
    CASE e.kind = "Undefined" -> 105
      [] e.kind = "WrongNumberOfArgs" -> 106
      [] e.kind = "UnknownKeyword" -> 107
      [] e.kind = "MissingArgument" -> 108
      [] e.kind = "Compilation" -> 610
      [] e.kind = "AbortInfallible" -> 620
      [] e.kind = "InvalidArgumentKind" -> 110
      [] e.kind = "FallibleArgument" -> 630
      [] e.kind = "UpdateState" -> 640
      [] e.kind = "UnexpectedClosure" -> 109
      [] e.kind = "MissingClosure" -> 111
      [] e.kind = "ClosureArityMismatch" -> 120
      [] e.kind = "ClosureParameterTypeMismatch" -> 121
      [] e.kind = "ReturnTypeMismatch" -> 122

\* Lines 801-820: code().
Code(e) ==
    CASE e.kind = "Undefined" -> 105
      [] e.kind = "WrongNumberOfArgs" -> 106
      [] e.kind = "UnknownKeyword" -> 108
      [] e.kind = "Compilation" -> 610
      [] e.kind = "MissingArgument" -> 107
      [] e.kind = "AbortInfallible" -> 620
      [] e.kind = "InvalidArgumentKind" -> 110
      [] e.kind = "FallibleArgument" -> 630
      [] e.kind = "UpdateState" -> 640
      [] e.kind = "UnexpectedClosure" -> 109
      [] e.kind = "MissingClosure" -> 111
      [] e.kind = "ClosureArityMismatch" -> 120
      [] e.kind = "ClosureParameterTypeMismatch" -> 121
      [] e.kind = "ReturnTypeMismatch" -> 122

\* levenstein::distance: the edit distance of two character vectors.
RECURSIVE Distance(_, _)
Distance(a, b) ==
    IF Len(a) = 0 THEN Len(b)
    ELSE IF Len(b) = 0 THEN Len(a)
    ELSE Min({Distance(Tail(a), b) + 1,
              Distance(a, Tail(b)) + 1,
              Distance(Tail(a), Tail(b)) + (IF Head(a) = Head(b) THEN 0 ELSE 1)})

\* The selection that keeps the last of several equal minima.
RECURSIVE MinByKeyLast(_, _, _)
MinByKeyLast(scores, i, best) ==
    IF i > Len(scores) THEN best
    ELSE MinByKeyLast(scores, i + 1,
                      IF IsNone(best) \/ scores[i] <= scores[Unwrap(best)]
                      THEN Some(i) ELSE best)

\* Line 841: Iterator::min_by_key over the enumerated scores: the position of
\* the least score, the first one of several equal minima, None without scores.
RECURSIVE MinByKey(_, _, _)
MinByKey(scores, i, best) ==
    IF i > Len(scores) THEN best
    ELSE MinByKey(scores, i + 1,
                  IF IsNone(best) \/ scores[i] < scores[Unwrap(best)]
                  THEN Some(i) ELSE best)

\* Lines 826-853: the labels of Undefined.
UndefinedLabels(e) ==
    LET scores == [i \in 1..Len(e.idents) |-> Distance(e.ident, e.idents[i])]
        idx == MinByKey(scores, 1, None)
    IN  << Label(TRUE, Message("undefined function", << >>), "ident_span") >>
        \o (IF IsSome(idx)
            THEN << Label(FALSE, Message("did you mean", << e.idents[Unwrap(idx)] >>),
                          "ident_span") >>
            ELSE << >>)

\* The labels of a plugin's diagnostic passed on as they are.
CompilationLabelsUntouched(e) == e.error.labels

\* Lines 889-896: the labels of Compilation: the labels of the wrapped
\* diagnostic, each with its span replaced by the span of the call.
CompilationLabels(e) ==
    [i \in 1..Len(e.error.labels) |-> [e.error.labels[i] EXCEPT !.span = "call_span"]]

\* Lines 931-940: kind_str, the wording for a kind in a label.
KindStr(kind) ==
    IF kind = KindAny THEN << "", kind >>
    ELSE IF Cardinality(kind) = 1 THEN << "the exact type", kind >>
    ELSE << "one of", kind >>

\* Lines 823-981: labels().
Labels(e) ==
    CASE e.kind = "Undefined" -> UndefinedLabels(e)
      [] e.kind = "WrongNumberOfArgs" ->
            << Label(TRUE, Message("too many function arguments", << >>), "arguments_span"),
               Label(FALSE, Message("this function takes a maximum of",
                                    << e.max, IF e.max = 1 THEN "argument" ELSE "arguments" >>),
                     "arguments_span") >>
      [] e.kind = "UnknownKeyword" ->
            << Label(TRUE, Message("unknown keyword", << >>), "keyword_span"),
               Label(FALSE, Message("this function accepts the following keywords",
                                    e.keywords), "ident_span") >>
      [] e.kind = "Compilation" -> CompilationLabels(e)
      [] e.kind = "MissingArgument" ->
            << Label(TRUE, Message("required argument missing",
                                   << e.keyword, e.position >>), "call_span") >>
      [] e.kind = "AbortInfallible" ->
            << Label(TRUE, Message("this function can't fail", << >>), "ident_span"),
               Label(FALSE, Message("remove this abort-instruction", << >>), "abort_span") >>
      [] e.kind = "InvalidArgumentKind" ->
            << Label(TRUE, Message("this expression resolves to", KindStr(e.got)),
                     "expr_span"),
               Label(FALSE, Message("but the parameter expects",
                                    << e.parameter.keyword >> \o KindStr(e.parameter.kind)),
                     "argument_span") >>
      [] e.kind = "FallibleArgument" ->
            << Label(TRUE, Message("this expression can fail", << >>), "expr_span"),
               Label(FALSE, Message("handle the error before passing it in as an argument",
                                    << >>), "expr_span") >>
      [] e.kind = "UpdateState" ->
            << Label(TRUE, Message("an error occurred updating the compiler state",
                                   << e.error >>), "call_span") >>
      [] e.kind = "UnexpectedClosure" ->
            << Label(TRUE, Message("unexpected closure", << >>), "closure_span"),
               Label(FALSE, Message("this function does not accept a closure", << >>),
                     "call_span") >>
      [] e.kind = "MissingClosure" ->
            << Label(TRUE, Message("this function expects a closure", << >>), "call_span") >>
      [] e.kind = "ClosureArityMismatch" ->
            << Label(TRUE, Message("this function requires a closure with argument(s)",
                                   << e.expected >>), "ident_span"),
               Label(FALSE, Message("but argument(s) are supplied", << e.supplied >>),
                     "closure_arguments_span") >>
      [] e.kind = "ClosureParameterTypeMismatch" ->
            << Label(TRUE, Message("the closure tied to this function call expects a different input value",
                                   << >>), "call_span"),
               Label(FALSE, Message("expression has an inferred type of", << e.found_kind >>),
                     "call_span") >>
      [] e.kind = "ReturnTypeMismatch" ->
            << Label(TRUE, Message("block returns invalid value type", << >>), "block_span"),
               Label(FALSE, Message("expected", << e.expected_kind >>), "block_span"),
               Label(FALSE, Message("received", << e.found_kind >>), "block_span") >>

\* Kind::is_bytes and its siblings: the kind is exactly the one type.
KindIs(kind, atom) == kind = {atom}

Note(tag, text) == [tag |-> tag, text |-> text]
\* Lines 983-1093: notes().
Notes(e) ==
    CASE e.kind = "WrongNumberOfArgs" -> << Note("SeeDocs", "function arguments") >>
      [] e.kind \in {"AbortInfallible", "FallibleArgument"} -> << Note("SeeErrorDocs", "") >>
      [] e.kind = "InvalidArgumentKind" ->
            LET kind == e.parameter.kind IN
            IF \A a \in KindAtoms : ~KindIs(kind, a) THEN << >>
            ELSE << Note("Solution", "ensuring an appropriate type at runtime") >>
                 \o (IF KindIs(kind, "bytes") \/ KindIs(kind, "integer")
                     THEN << Note("Solution",
                                  "coercing to an appropriate type and specifying a default value") >>
                     ELSE << >>)
                 \o << Note("SeeErrorDocs", "") >>
      [] e.kind = "Compilation" -> e.error.notes
      [] e.kind = "MissingClosure" ->
            IF IsSome(e.example) THEN << Note("Example", Unwrap(e.example).source) >>
            ELSE << >>
      [] OTHER -> << >>

\* The three methods of the trait, each called once on the error.
DiagnosticCode ==
    /\ IsSome(err)
    /\ IsNone(diagnostic.code)
    /\ diagnostic' = [diagnostic EXCEPT !.code = Some(Code(Unwrap(err)))]
    /\ UNCHANGED << callsite, local, external_context, pc, err, builder, finaliser, runtime >>

DiagnosticLabels ==
    /\ IsSome(err)
    /\ IsNone(diagnostic.labels)
    /\ diagnostic' = [diagnostic EXCEPT !.labels = Some(Labels(Unwrap(err)))]
    /\ UNCHANGED << callsite, local, external_context, pc, err, builder, finaliser, runtime >>

DiagnosticNotes ==
    /\ IsSome(err)
    /\ IsNone(diagnostic.notes)
    /\ diagnostic' = [diagnostic EXCEPT !.notes = Some(Notes(Unwrap(err)))]
    /\ UNCHANGED << callsite, local, external_context, pc, err, builder, finaliser, runtime >>

\* The identifiers the diagnostics are computed over.
Word_test == << "t", "e", "s", "t" >>
Word_teest == << "t", "e", "e", "s", "t" >>
Word_tset == << "t", "s", "e", "t" >>
Word_tes == << "t", "e", "s" >>
Word_est == << "e", "s", "t" >>
Word_xy == << "x", "y" >>
Words == {Word_test, Word_teest, Word_tset, Word_tes, Word_est, Word_xy}
Range(s) == {s[i] : i \in 1..Len(s)}

\* The diagnostics a plugin may return from Function::compile.
PluginLabels ==
    {Label(p, Message(t, << >>), s) : p \in BOOLEAN, t \in {"invalid regex", "unknown flag"},
                                     s \in {"pattern_span", "call_span"}}
PluginErrors ==
    {PluginError(c, l, n) : c \in {0, 610, 901}, l \in SeqsUpTo(PluginLabels, 2),
                            n \in {<< >>, << Note("SeeErrorDocs", "") >>}}

\* The errors of Builder::new and Builder::compile.
Errors ==
    UNION {{[kind |-> "Undefined", ident |-> w, idents |-> r] :
                r \in {q \in SeqsUpTo(Words, MaxIdents) : w \notin Range(q)}} : w \in Words}
    \cup {[kind |-> "WrongNumberOfArgs", max |-> m] : m \in 0..3}
    \cup {[kind |-> "UnknownKeyword", keywords |-> k] :
              k \in {<< "one", "two", "three" >>, << "value" >>}}
    \cup {[kind |-> "Compilation", error |-> e] : e \in PluginErrors}
    \cup {[kind |-> "MissingArgument", keyword |-> k, position |-> p] :
              k \in {"value", "start"}, p \in 0..1}
    \cup {[kind |-> "AbortInfallible"]}
    \cup {[kind |-> "InvalidArgumentKind", parameter |-> p, got |-> ExprTypeDef(a.expr).kind,
           argument |-> a] :
              p \in Range(SliceFn.parameters) \cup Range(ForEachFn.parameters),
              a \in {Argument(NoKeyword, e) : e \in {IntOne, Str, FallStr, Path}}}
    \cup {[kind |-> "FallibleArgument", argument |-> Argument(NoKeyword, e)] :
              e \in {FallInt, FallStr}}
    \cup {[kind |-> "UpdateState", error |-> "update failed"]}
    \cup {[kind |-> "UnexpectedClosure"]}
    \cup {[kind |-> "MissingClosure", example |-> x] :
              x \in {None, Some(ForEachFn.closure[1].inputs[1].example)}}
    \cup {[kind |-> "ClosureArityMismatch", expected |-> x, supplied |-> s] :
              x \in 1..2, s \in 0..2}
    \cup {[kind |-> "ClosureParameterTypeMismatch", found_kind |-> k] :
              k \in {KindAny, {"bytes"}}}
    \cup {[kind |-> "ReturnTypeMismatch", found_kind |-> {"integer"},
           expected_kind |-> {"bytes"}]}

InitDiagnostic ==
    /\ ident = "test"
    /\ abort_on_error = FALSE
    /\ arguments = << >>
    /\ closure_variables = None
    /\ local = EmptyMap
    /\ local_snapshot = EmptyMap
    /\ caller_local = EmptyMap
    /\ external_context = InitialContext
    /\ function_id = None
    /\ index = 0
    /\ argi = 0
    /\ list = EmptyList
    /\ maybe_fallible_arguments = FALSE
    /\ bound = << >>
    /\ closure = None
    /\ block = None
    /\ closure_fallible = FALSE
    /\ compile_ctx = None
    /\ expr = None
    /\ update_state_calls = 0
    /\ call = None
    /\ resolved = None
    /\ call_type_def = None
    /\ diagnostic = NoDiagnostic
    /\ \E e \in Errors :
          /\ err = Some(e)
          /\ pc = IF e.kind \in {"ReturnTypeMismatch", "Compilation", "AbortInfallible",
                                 "UpdateState"}
                  THEN "compile_err" ELSE "new_err"

NextDiagnostic ==
    \/ DiagnosticCode
    \/ DiagnosticLabels
    \/ DiagnosticNotes

SpecDiagnostic == InitDiagnostic /\ [][NextDiagnostic]_vars

(***************************************************************************)
(* Properties                                                              *)
(***************************************************************************)
Params == FunctionOf(Unwrap(function_id)).parameters
NewSucceeded == pc \in {"built", "compile", "function", "abort", "update", "done",
                        "compile_err"}
CompileReturned == pc \in {"done", "compile_err"}
\* The loop over the arguments ran to its end.
LoopFinished == /\ pc \notin {"new", "bind"}
                /\ IsSome(function_id)
                /\ argi = Len(arguments)
ErrKind == IF IsSome(err) THEN Unwrap(err).kind ELSE "none"

KeywordArgs(args) == {j \in 1..Len(args) : args[j].keyword # NoKeyword}
PositionalArgs(args) == {j \in 1..Len(args) : args[j].keyword = NoKeyword}
DistinctKeywords(args) ==
    \A i, j \in KeywordArgs(args) : i # j => args[i].keyword # args[j].keyword

\* C1 (scope balance, as claimed): for a call-site with a closure, once
\* Builder::compile has returned (a FunctionCall or an error), local is the
\* scope the caller had just before Builder::new, whatever the closure
\* variable names are (shadowing or repeated).
ScopeBalance ==
    (IsSome(closure) /\ CompileReturned) => local = caller_local

\* C2 (scoped acquisition, as claimed): whenever Builder::compile has returned
\* after the context bag was swapped out, external holds the bag carried by
\* the compile context, not the empty placeholder.
ExternalContextRestored ==
    (CompileReturned /\ IsSome(compile_ctx)) =>
        /\ external_context = Unwrap(compile_ctx)
        /\ external_context # EmptyContext

\* The argument expected in the slot of parameter i: the keyword argument of
\* that keyword, else the n-th positional argument when the slot is the n-th
\* one no keyword argument names, else nothing.
KeywordArgFor(params, args, i) ==
    {j \in KeywordArgs(args) : args[j].keyword = params[i].keyword}
FreeRank(params, args, i) ==
    Cardinality({h \in 1..i : KeywordArgFor(params, args, h) = {}})
NthPositional(args, n) ==
    CHOOSE j \in PositionalArgs(args) :
        Cardinality({h \in PositionalArgs(args) : h <= j}) = n
ExpectedSlot(params, args, i) ==
    IF KeywordArgFor(params, args, i) # {}
    THEN Some(args[CHOOSE j \in KeywordArgFor(params, args, i) : TRUE])
    ELSE IF FreeRank(params, args, i) <= Cardinality(PositionalArgs(args))
    THEN Some(args[NthPositional(args, FreeRank(params, args, i))])
    ELSE None

\* C3: for an argument list the binder accepted, with distinct keywords,
\* resolve_arguments returns Ok of one slot per parameter, in declaration
\* order and labelled with the parameter's keyword; a keyword argument sits in
\* the slot of its parameter, the positional arguments fill the slots no
\* keyword names, in source order, and every other slot is empty.
ResolveArgumentsReference ==
    (IsSome(resolved) /\ DistinctKeywords(arguments)) =>
        LET r == Unwrap(resolved) IN
        /\ r.status = "Ok"
        /\ Len(r.result) = Len(Params)
        /\ \A i \in 1..Len(Params) :
              r.result[i] = [keyword |-> Params[i].keyword,
                             arg |-> ExpectedSlot(Params, arguments, i)]

\* test(three=3, 1, 2) resolved to [one: 1, two: 2, three: three=3].
ResolveArgumentsWitness ==
    /\ IsSome(resolved)
    /\ arguments = << Argument("three", IntThree), Argument(NoKeyword, IntOne),
                      Argument(NoKeyword, IntTwo) >>
    /\ Unwrap(resolved).result =
           << [keyword |-> "one", arg |-> Some(Argument(NoKeyword, IntOne))],
              [keyword |-> "two", arg |-> Some(Argument(NoKeyword, IntTwo))],
              [keyword |-> "three", arg |-> Some(Argument("three", IntThree))] >>

\* The calls that differ from args only by a permutation of the keyword
\* arguments among the list positions that hold keyword arguments.
KeywordPermutations(args) ==
    {a \in [1..Len(args) -> {args[j] : j \in 1..Len(args)}] :
        /\ \A j \in PositionalArgs(args) : a[j] = args[j]
        /\ {a[j] : j \in KeywordArgs(args)} = {args[j] : j \in KeywordArgs(args)}}

\* C4 (keyword independence, as claimed): a call Builder::new accepted and
\* every accepted call that permutes its (distinct) keyword arguments give
\* the same keyword -> expression map.
KeywordIndependence ==
    (pc = "built" /\ DistinctKeywords(arguments)) =>
        \A a \in KeywordPermutations(arguments) :
            LET o == BuilderNew(FunctionOf(Unwrap(function_id)), a,
                                closure_variables, caller_local)
            IN  IsNone(o.err) => o.list.arguments = list.arguments

\* C5 (binder and resolve_arguments agree, as claimed): for an accepted call
\* with distinct keywords, every argument sits, in the vector of
\* resolve_arguments, in the slot of the parameter the binder bound it to.
BinderAgreesWithResolve ==
    (IsSome(resolved) /\ DistinctKeywords(arguments)) =>
        \A j \in 1..Len(arguments) :
            Unwrap(resolved).result[bound[j] + 1].arg = Some(arguments[j])

\* C6: type_def of a FunctionCall is infallible when abort_on_error is set,
\* and otherwise fallible exactly when the expression, the arguments
\* (partial match) or the closure are; its kind is that of the expression.
FallibilityAlgebra ==
    IsSome(call_type_def) =>
        LET c == Unwrap(call)
            t == Unwrap(call_type_def)
        IN  /\ c.abort_on_error => ~t.fallible
            /\ ~c.abort_on_error =>
                  (t.fallible <=> (c.expr.fallible \/ c.maybe_fallible_arguments
                                   \/ c.closure_fallible))
            /\ t.kind = c.expr.kind

\* type_def was applied to a call with the abort marker on a fallible closure.
FallibilityWitness ==
    /\ IsSome(call_type_def)
    /\ Unwrap(call).abort_on_error
    /\ Unwrap(call).closure_fallible
    /\ ~Unwrap(call).expr.fallible
    /\ ~Unwrap(call_type_def).fallible

\* C7: when Builder::new succeeds, maybe_fallible_arguments is true exactly
\* when some supplied argument has a kind that intersects the kind of the
\* parameter it was bound to without being contained in it.
PartialMatchFlag ==
    NewSucceeded =>
        (maybe_fallible_arguments <=>
            \E j \in 1..Len(arguments) :
                LET pk == Params[bound[j] + 1].kind
                    ek == ExprTypeDef(arguments[j].expr).kind
                IN  (pk \cap ek # {}) /\ ~(ek \subseteq pk))

\* slice(.foo, 1) was accepted: only the first argument matches in part.
PartialMatchWitness ==
    /\ pc = "built"
    /\ ident = "slice"
    /\ arguments = << Argument(NoKeyword, Path), Argument(NoKeyword, IntOne) >>
    /\ maybe_fallible_arguments

\* C8: when Builder::new succeeds, every keyword -> expression entry of the
\* ArgumentList has an infallible expression whose kind intersects the kind
\* of the parameter of that keyword.
RetainedArguments ==
    NewSucceeded =>
        \A k \in DOMAIN list.arguments :
            \E i \in 1..Len(Params) :
                /\ Params[i].keyword = k
                /\ Params[i].kind \cap ExprTypeDef(list.arguments[k]).kind # {}
                /\ ~ExprTypeDef(list.arguments[k]).fallible

\* slice(start=1, value=.foo) was accepted with both entries retained.
RetainedArgumentsWitness ==
    /\ pc = "built"
    /\ ident = "slice"
    /\ DOMAIN list.arguments = {"value", "start"}
    /\ list.arguments["value"] = Path
    /\ list.arguments["start"] = IntOne

\* C9: when all arguments are bound and a required parameter's keyword is
\* not in the bound set, Builder::new fails with MissingArgument naming the
\* first such parameter in declaration order and its index (and fails so
\* only then); when Builder::new succeeds no required keyword is missing.
RequiredArguments ==
    LET missing == {i \in 1..Len(Params) :
                       Params[i].required
                       /\ Params[i].keyword \notin DOMAIN list.arguments}
        first == CHOOSE i \in missing : \A j \in missing : i <= j
    IN  /\ (LoopFinished /\ missing # {}) =>
               /\ pc = "new_err"
               /\ err = Some([kind |-> "MissingArgument",
                              keyword |-> Params[first].keyword,
                              position |-> first - 1])
        /\ ErrKind = "MissingArgument" => (LoopFinished /\ missing # {})
        /\ NewSucceeded => missing = {}

\* slice() fails for value (index 0), although start is missing as well.
RequiredArgumentsWitness ==
    /\ pc = "new_err"
    /\ ident = "slice"
    /\ arguments = << >>
    /\ err = Some([kind |-> "MissingArgument", keyword |-> "value", position |-> 0])

\* C10: once the arguments are bound and none is missing, a closure supplied
\* to a function that declares none fails with UnexpectedClosure and a
\* missing closure of a function that declares one with MissingClosure (and
\* these errors arise only so); Builder::new never succeeds on such a call;
\* the lowered FunctionCall has a closure exactly when the function declares
\* one and the call supplies one.
ClosurePresence ==
    LET declared == IsSome(FunctionOf(Unwrap(function_id)).closure)
        supplied == IsSome(closure_variables)
        checked == LoopFinished /\ pc # "closure" /\ ErrKind # "MissingArgument"
    IN  /\ (checked /\ ~declared /\ supplied) =>
               (pc = "new_err" /\ ErrKind = "UnexpectedClosure")
        /\ (checked /\ declared /\ ~supplied) =>
               (pc = "new_err" /\ ErrKind = "MissingClosure")
        /\ NewSucceeded => (declared <=> supplied)
        /\ ErrKind = "UnexpectedClosure" => (~declared /\ supplied)
        /\ ErrKind = "MissingClosure" => (declared /\ ~supplied)
        /\ pc = "done" => (IsSome(Unwrap(call).closure) <=> (declared /\ supplied))

\* A for_each call with its closure was lowered; its FunctionCall has one.
ClosurePresenceWitness ==
    /\ pc = "done"
    /\ ident = "for_each"
    /\ IsSome(closure_variables)
    /\ IsSome(Unwrap(call).closure)

ClosureErrorsSilenced ==
    (closure_fallible /\ abort_on_error /\ IsSome(expr)) =>
        /\ ErrKind # "AbortInfallible"
        /\ IsSome(call_type_def) => ~Unwrap(call_type_def).fallible

\* The argument of the last iteration of the binder's loop, the parameter it
\* was matched to and its type definition.
LastBound == Len(bound)
LastArgument == arguments[LastBound]
LastParameter == Params[bound[LastBound] + 1]
LastTypeDef == ExprTypeDef(LastArgument.expr)

\* C13 (type-check order, as claimed): the fallibility test comes first: a
\* fallible argument fails with FallibleArgument also when its kind does not
\* intersect the parameter's, and InvalidArgumentKind is returned only for an
\* infallible argument.
FallibilityCheckedFirst ==
    (IsSome(function_id) /\ LastBound > 0) =>
        /\ LastTypeDef.fallible => ErrKind = "FallibleArgument"
        /\ ErrKind = "InvalidArgumentKind" =>
               (~LastTypeDef.fallible
                /\ ~Intersects(LastParameter.kind, LastTypeDef.kind))

\* C13 (amended): the kind test comes first: an argument whose kind does not
\* intersect the parameter's kind fails with InvalidArgumentKind, also when
\* it is fallible; FallibleArgument is returned exactly for a fallible
\* argument whose kind intersects; every argument bound before it passed both.
KindCheckedFirst ==
    (IsSome(function_id) /\ LastBound > 0) =>
        /\ ~Intersects(LastParameter.kind, LastTypeDef.kind) <=>
               ErrKind = "InvalidArgumentKind"
        /\ (Intersects(LastParameter.kind, LastTypeDef.kind) /\ LastTypeDef.fallible) <=>
               ErrKind = "FallibleArgument"
        /\ \A j \in 1..(LastBound - 1) :
               /\ Intersects(Params[bound[j] + 1].kind,
                             ExprTypeDef(arguments[j].expr).kind)
               /\ ~ExprTypeDef(arguments[j].expr).fallible

\* slice('s', to_string(.a)): the second argument is fallible and of the wrong
\* kind, and the call fails with InvalidArgumentKind.
KindCheckedFirstWitness ==
    /\ pc = "new_err"
    /\ ErrKind = "InvalidArgumentKind"
    /\ Unwrap(err).argument = Argument(NoKeyword, FallStr)
    /\ Unwrap(err).parameter.keyword = "start"
    /\ LastBound = 2

\* The identifiers of the registry, in registration order.
RegistryIdents == [i \in 1..Len(Funcs) |-> Funcs[i].identifier]

\* C17: Builder::new fails with Undefined, carrying every identifier of the
\* registry, exactly when no registered function has the called identifier;
\* otherwise function_id is an index of the registry, the function there has
\* the called identifier, and no lower index does.
FunctionLookup ==
    pc # "new" =>
        /\ ErrKind = "Undefined" <=> (\A i \in 1..Len(Funcs) : Funcs[i].identifier # ident)
        /\ ErrKind = "Undefined" =>
               /\ Unwrap(err).idents = RegistryIdents
               /\ Unwrap(err).ident = ident
               /\ IsNone(function_id)
        /\ ErrKind # "Undefined" =>
               /\ IsSome(function_id)
               /\ Unwrap(function_id) \in 0..(Len(Funcs) - 1)
               /\ FunctionOf(Unwrap(function_id)).identifier = ident
               /\ \A i \in 0..(Unwrap(function_id) - 1) : FunctionOf(i).identifier # ident
        /\ pc = "done" => Unwrap(call).function_id = Unwrap(function_id)

\* A call of `test`, registered twice, was lowered with the first entry.
FunctionLookupWitness ==
    /\ pc = "done"
    /\ ident = "test"
    /\ Cardinality({i \in 1..Len(Funcs) : Funcs[i].identifier = ident}) = 2
    /\ Unwrap(call).function_id = 0

\* The number of arguments the binder's loop has entered: the ones it bound
\* and the one it failed on.
Processed ==
    IF ErrKind \in {"UnknownKeyword", "InvalidArgumentKind", "FallibleArgument"}
    THEN argi + 1 ELSE argi

\* C18: a call with more arguments than parameters fails with
\* WrongNumberOfArgs (max the number of parameters) before any argument is
\* bound; in every other call the cursor never exceeds the number of
\* arguments processed, every positional argument finds a parameter, and
\* UnknownKeyword is returned only for a keyword argument.
ArityCeiling ==
    (pc # "new" /\ IsSome(function_id)) =>
        /\ Len(arguments) > Len(Params) <=> ErrKind = "WrongNumberOfArgs"
        /\ ErrKind = "WrongNumberOfArgs" =>
               /\ Unwrap(err).max = Len(Params)
               /\ argi = 0 /\ index = 0 /\ bound = << >> /\ list = EmptyList
        /\ index <= Processed
        /\ index <= Len(Params)
        /\ pc # "panic"
        /\ ErrKind = "UnknownKeyword" =>
               /\ arguments[argi + 1].keyword # NoKeyword
               /\ KeywordPosition(Params, arguments[argi + 1].keyword) = -1
        /\ \A j \in 1..Len(bound) :
               arguments[j].keyword = NoKeyword => bound[j] \in 0..(Len(Params) - 1)

\* slice(1, 's', .foo) was rejected before the loop, and test(1, 2, 3) moved
\* the cursor to the end of the parameter list.
ArityCeilingRejected ==
    /\ ident = "slice" /\ Len(arguments) = 3
    /\ ErrKind = "WrongNumberOfArgs"
ArityCeilingWitness ==
    /\ ident = "test" /\ pc = "done"
    /\ \A j \in 1..Len(arguments) : arguments[j].keyword = NoKeyword
    /\ index = Len(Params) /\ Len(arguments) = Len(Params)

\* C19 (no positional re-binding, as claimed): the cursor advances on a
\* keyword argument exactly when the position of the keyword's parameter
\* equals the cursor, and a parameter bound by a keyword argument is not bound
\* again by a positional argument later in the same call.
NoPositionalRebinding ==
    [][(pc = "bind" /\ argi < Len(arguments)) =>
          /\ LET a == arguments[argi + 1] IN
             (a.keyword # NoKeyword /\ pc' # "panic") =>
                 (index' = index + 1 <=> KeywordPosition(Params, a.keyword) = index)
          /\ \A i, j \in 1..Len(bound') :
                 (i < j /\ arguments[i].keyword # NoKeyword
                        /\ arguments[j].keyword = NoKeyword) => bound'[i] # bound'[j]
      ]_vars

\* The closure inputs of the called function, the ones whose parameter has a
\* bound argument of an accepted kind, and the ones whose argument is of a
\* kind the input does not accept.
ClosureInputs == Unwrap(FunctionOf(Unwrap(function_id)).closure).inputs
InputArgKind(i) == ExprTypeDef(list.arguments[ClosureInputs[i].parameter_keyword]).kind
InputsBound == {i \in 1..Len(ClosureInputs) :
                   ClosureInputs[i].parameter_keyword \in DOMAIN list.arguments}
InputsAccepting == {i \in InputsBound : IsSuperset(ClosureInputs[i].kind, InputArgKind(i))}
InputsRejecting == InputsBound \ InputsAccepting
Max(S) == CHOOSE x \in S : \A y \in S : y <= x
\* The closure validity check of a call with a block on a function that
\* declares a closure has run.
ClosureScanned ==
    /\ IsSome(function_id)
    /\ IsSome(FunctionOf(Unwrap(function_id)).closure)
    /\ IsSome(closure_variables)
    /\ \/ NewSucceeded
       \/ ErrKind \in {"ClosureParameterTypeMismatch", "ClosureArityMismatch"}

\* C20: the closure inputs are tried in declaration order; an input without
\* a bound argument, or whose kind is not a superset of the argument's kind,
\* is skipped, and the first one left is the match; without a match the call
\* fails with ClosureParameterTypeMismatch, whose found_kind is the argument
\* kind of the last input skipped for its kind, or any when every input was
\* skipped for a missing argument.
ClosureInputSelection ==
    ClosureScanned =>
        /\ InputsAccepting = {} <=> ErrKind = "ClosureParameterTypeMismatch"
        /\ ErrKind = "ClosureParameterTypeMismatch" =>
               Unwrap(err).found_kind =
                   IF InputsRejecting = {} THEN KindAny
                   ELSE InputArgKind(Max(InputsRejecting))
        /\ ErrKind = "ClosureArityMismatch" =>
               Unwrap(err).expected = Len(ClosureInputs[Min(InputsAccepting)].variables)
        /\ NewSucceeded =>
               Unwrap(closure).input = ClosureInputs[Min(InputsAccepting)]

\* Both inputs accept their argument and the first one was taken.
ClosureInputSelectionWitness ==
    /\ ClosureScanned /\ NewSucceeded
    /\ InputsAccepting = {1, 2}
    /\ Unwrap(closure).input = ClosureInputs[1]
\* Two inputs rejected arguments of different kinds and the later is reported.
ClosureInputMismatchWitness ==
    /\ ClosureScanned
    /\ InputsRejecting = {1, 2}
    /\ InputArgKind(1) # InputArgKind(2)
    /\ Unwrap(err).found_kind = InputArgKind(2)
\* No input has an argument and the reported kind is any.
ClosureInputUnboundWitness ==
    /\ ClosureScanned
    /\ InputsBound = {}
    /\ ErrKind = "ClosureParameterTypeMismatch"
    /\ Unwrap(err).found_kind = KindAny

\* The error whose diagnostic was computed, and the parts computed so far.
DiagError == Unwrap(err)
HasCode == IsSome(err) /\ IsSome(diagnostic.code)
HasLabels == IsSome(err) /\ IsSome(diagnostic.labels)
HasNotes == IsSome(err) /\ IsSome(diagnostic.notes)
ErrorKinds == {"Undefined", "WrongNumberOfArgs", "UnknownKeyword", "MissingArgument",
               "Compilation", "AbortInfallible", "InvalidArgumentKind",
               "FallibleArgument", "UpdateState", "UnexpectedClosure", "MissingClosure",
               "ClosureArityMismatch", "ClosureParameterTypeMismatch",
               "ReturnTypeMismatch"}

\* C14: code() maps the fourteen error kinds to 105, 106, 108, 107, 109, 110,
\* 111, 120, 121, 122, 610, 620, 630, 640 as the table says; the codes are
\* pairwise distinct, those of the binding errors are at most 199 and those
\* of Compilation, AbortInfallible, FallibleArgument and UpdateState are 6xx.
ErrorCodes ==
    HasCode =>
        LET code == Unwrap(diagnostic.code)
            kind == DiagError.kind
        IN  /\ kind = "Undefined" => code = 105
            /\ kind = "WrongNumberOfArgs" => code = 106
            /\ kind = "MissingArgument" => code = 107
            /\ kind = "UnknownKeyword" => code = 108
            /\ kind = "UnexpectedClosure" => code = 109
            /\ kind = "InvalidArgumentKind" => code = 110
            /\ kind = "MissingClosure" => code = 111
            /\ kind = "ClosureArityMismatch" => code = 120
            /\ kind = "ClosureParameterTypeMismatch" => code = 121
            /\ kind = "ReturnTypeMismatch" => code = 122
            /\ kind = "Compilation" => code = 610
            /\ kind = "AbortInfallible" => code = 620
            /\ kind = "FallibleArgument" => code = 630
            /\ kind = "UpdateState" => code = 640
            /\ kind \in ErrorKinds
            /\ \A k \in ErrorKinds \ {kind} : Code([kind |-> k]) # code
            /\ kind \in {"Compilation", "AbortInfallible", "FallibleArgument", "UpdateState"}
                   <=> code \in 600..699
            /\ kind \notin {"Compilation", "AbortInfallible", "FallibleArgument", "UpdateState"}
                   <=> code <= 199

\* code() was called on a MissingArgument error.
ErrorCodesWitness ==
    /\ HasCode
    /\ DiagError.kind = "MissingArgument"
    /\ Unwrap(diagnostic.code) = 107

\* The labels of an Undefined error that suggest an identifier, and the
\* positions of the registry at the least distance from the undefined one.
Suggestions ==
    {i \in 1..Len(Unwrap(diagnostic.labels)) :
        Unwrap(diagnostic.labels)[i].message.text = "did you mean"}
Nearest ==
    LET d == [i \in 1..Len(DiagError.idents) |->
                 Distance(DiagError.ident, DiagError.idents[i])]
    IN  {i \in DOMAIN d : \A j \in DOMAIN d : d[i] <= d[j]}

\* C15: for an Undefined error over a non-empty registry, labels() suggests
\* exactly one identifier; no identifier of the registry is nearer to the
\* undefined one in edit distance over characters, whatever that distance is,
\* and of several nearest identifiers the one registered first is suggested.
SuggestionMinimality ==
    (HasLabels /\ DiagError.kind = "Undefined") =>
        /\ DiagError.idents # << >> =>
               /\ Cardinality(Suggestions) = 1
               /\ \A s \in Suggestions :
                      Unwrap(diagnostic.labels)[s].message.args
                          = << DiagError.idents[Min(Nearest)] >>
        /\ DiagError.idents = << >> => Suggestions = {}

\* `teest` is suggested for `test` by a registry that holds nothing else.
SuggestionWitness ==
    /\ HasLabels
    /\ DiagError.kind = "Undefined"
    /\ DiagError.ident = Word_test
    /\ DiagError.idents = << Word_teest >>
    /\ \E s \in Suggestions : Unwrap(diagnostic.labels)[s].message.args = << Word_teest >>
\* Two identifiers are equally near and further than one edit away; the
\* first of them is suggested.
SuggestionTieWitness ==
    /\ HasLabels
    /\ DiagError.kind = "Undefined"
    /\ Cardinality(Nearest) > 1
    /\ DiagError.idents[1] # DiagError.idents[Len(DiagError.idents)]
    /\ Distance(DiagError.ident, DiagError.idents[Min(Nearest)]) > 1
    /\ Min(Nearest) > 1

\* C16 (Compilation wrapping, as claimed): the diagnostic of a Compilation
\* error forwards the code, the labels and the notes of the wrapped plugin
\* error, the labels with their span replaced by the span of the call.
CompilationForwardsAll ==
    (IsSome(err) /\ DiagError.kind = "Compilation") =>
        /\ IsSome(diagnostic.code) => Unwrap(diagnostic.code) = DiagError.error.code
        /\ IsSome(diagnostic.notes) => Unwrap(diagnostic.notes) = DiagError.error.notes
        /\ IsSome(diagnostic.labels) =>
               /\ Len(Unwrap(diagnostic.labels)) = Len(DiagError.error.labels)
               /\ \A i \in 1..Len(DiagError.error.labels) :
                      /\ Unwrap(diagnostic.labels)[i].span = "call_span"
                      /\ Unwrap(diagnostic.labels)[i].message
                             = DiagError.error.labels[i].message

\* C16 (amended): the diagnostic of a Compilation error has the code 610
\* whatever the code of the wrapped plugin error; it forwards the plugin's
\* notes, and its labels in number, order, message and primary flag, with
\* every span replaced by the span of the call.
CompilationWrapping ==
    (IsSome(err) /\ DiagError.kind = "Compilation") =>
        /\ IsSome(diagnostic.code) => Unwrap(diagnostic.code) = 610
        /\ IsSome(diagnostic.notes) => Unwrap(diagnostic.notes) = DiagError.error.notes
        /\ IsSome(diagnostic.labels) =>
               /\ Len(Unwrap(diagnostic.labels)) = Len(DiagError.error.labels)
               /\ \A i \in 1..Len(DiagError.error.labels) :
                      /\ Unwrap(diagnostic.labels)[i].span = "call_span"
                      /\ Unwrap(diagnostic.labels)[i].message
                             = DiagError.error.labels[i].message
                      /\ Unwrap(diagnostic.labels)[i].primary
                             = DiagError.error.labels[i].primary

\* A plugin error with the code 901, two labels on a span of its own and a
\* note was wrapped, and code(), labels() and notes() were called on it.
CompilationWrappingWitness ==
    /\ HasCode /\ HasLabels /\ HasNotes
    /\ DiagError.kind = "Compilation"
    /\ DiagError.error.code = 901
    /\ Len(DiagError.error.labels) = 2
    /\ \A i \in 1..2 : DiagError.error.labels[i].span = "pattern_span"
    /\ DiagError.error.labels[1].message # DiagError.error.labels[2].message
    /\ DiagError.error.notes # << >>

\* The matched closure input, its target and the closure variables of the
\* call, once Builder::new has matched an input.
MatchedInput == Unwrap(closure).input
MatchedTarget == ExprTypeDef(list.arguments[MatchedInput.parameter_keyword])
Supplied == Unwrap(closure).variables
\* The type a closure variable is given, by the kind of variable declared.
DerivedKind(input_var, target) ==
    CASE input_var.tag = "Exact" -> KindIntoTypeDef(input_var.kind)
      [] input_var.tag = "Target" -> target
      [] input_var.tag = "TargetInnerValue" ->
            KindIntoTypeDef(IF "object" \in target.kind THEN target.okind
                            ELSE IF "array" \in target.kind THEN target.akind
                            ELSE KindAny)
      [] input_var.tag = "TargetInnerKey" ->
            KindIntoTypeDef(IF target.kind = {"object"} THEN {"bytes"}
                            ELSE IF target.kind = {"array"} THEN {"integer"}
                            ELSE IF target.kind = {"object", "array"}
                            THEN {"bytes", "integer"}
                            ELSE KindAny)
\* Builder::new has returned a builder with a closure and the closure block
\* is not compiled yet.
BlockPending == pc \in {"built", "compile"} /\ IsSome(closure)

ClosureVariablesAnyKeyWitness ==
    /\ BlockPending
    /\ MatchedInput.variables[1].tag = "TargetInnerKey"
    /\ MatchedTarget.kind = {"bytes"}
    /\ Supplied[1] # Supplied[2]
    /\ local[Supplied[1]].type_def.kind = KindAny
\* A variable declared as the target holds the type definition of the target.
ClosureVariablesTargetWitness ==
    /\ BlockPending
    /\ MatchedInput.variables[1].tag = "Target"
    /\ local[Supplied[1]].type_def = MatchedTarget
    /\ MatchedTarget.okind # {}

\* The error kinds Builder::new returns.
BindingErrors == {"Undefined", "WrongNumberOfArgs", "UnknownKeyword",
                  "InvalidArgumentKind", "FallibleArgument", "MissingArgument",
                  "UnexpectedClosure", "MissingClosure",
                  "ClosureParameterTypeMismatch", "ClosureArityMismatch"}

\* C22: whenever Builder::new returns an error, local is the scope the caller
\* had before the call, and the snapshot is as it was; a closure arity
\* mismatch has inserted none of the closure variables.
FailedBindingKeepsScope ==
    pc = "new_err" =>
        /\ ErrKind \in BindingErrors
        /\ local = caller_local
        /\ local_snapshot = caller_local
        /\ IsNone(closure)

\* |k| was supplied where two variables are expected, k is not bound by the
\* caller and is not bound after the error.
FailedBindingWitness ==
    /\ pc = "new_err"
    /\ ErrKind = "ClosureArityMismatch"
    /\ closure_variables = Some(<< "v" >>)
    /\ Unwrap(err).expected = 2
    /\ "v" \notin DOMAIN local

\* Function::compile was invoked (the context bag was swapped out for it), and
\* update_state was invoked.
FunctionCompiled == IsSome(compile_ctx)
StateUpdated == update_state_calls > 0
\* The return-type check of Builder::compile has run on a closure.
ReturnTypeChecked ==
    /\ IsSome(closure)
    /\ pc \in {"function", "abort", "update", "done", "compile_err"}

\* C23: in Builder::compile the closure variables are unbound before the
\* return-type check, and an error at one step prevents every later step: on
\* ReturnTypeMismatch (the output kind of the input is no superset of the
\* block's kind) function.compile is not invoked and the context bag is not
\* swapped; on Compilation and AbortInfallible update_state is not invoked;
\* update_state runs only after the abort check has passed.
FinaliserStepOrder ==
    /\ ReturnTypeChecked =>
           /\ ErrKind = "ReturnTypeMismatch" <=>
                  ~IsSuperset(Unwrap(closure).input.output, Unwrap(block).kind)
           /\ \A id \in Range(Unwrap(closure).variables) :
                  id \notin DOMAIN caller_local => id \notin DOMAIN local
    /\ ErrKind = "ReturnTypeMismatch" =>
           /\ ~FunctionCompiled /\ IsNone(expr)
           /\ external_context = InitialContext
           /\ ~StateUpdated
    /\ FunctionCompiled => ErrKind # "ReturnTypeMismatch"
    /\ ErrKind = "Compilation" => (FunctionCompiled /\ IsNone(expr) /\ ~StateUpdated)
    /\ ErrKind = "AbortInfallible" => (FunctionCompiled /\ IsSome(expr) /\ ~StateUpdated)
    /\ StateUpdated =>
           /\ update_state_calls = 1
           /\ IsSome(expr)
           /\ ~(abort_on_error /\ ~maybe_fallible_arguments /\ ~Unwrap(expr).fallible)
           /\ ErrKind \in {"none", "UpdateState"}
    /\ pc = "done" => StateUpdated

\* map_keys with a block of integers: the variable of the closure is unbound
\* and the call is rejected before the function is compiled.
FinaliserStepOrderWitness ==
    /\ ErrKind = "ReturnTypeMismatch"
    /\ ident = "map_keys"
    /\ closure_variables = Some(<< "v" >>)
    /\ "v" \notin DOMAIN local
    /\ ~FunctionCompiled
\* update_state failed after the abort check passed on a call with the marker.
FinaliserUpdateWitness ==
    /\ ErrKind = "UpdateState"
    /\ abort_on_error
    /\ StateUpdated

\* C24: for every FunctionCall produced by Builder::new and Builder::compile,
\* resolve_arguments called with the function the call was bound to does not
\* index the result vector out of bounds and does not return an Err, also
\* when a keyword is repeated or every parameter slot is filled.
ResolveArgumentsTotal ==
    pc = "done" =>
        /\ ResolveArgumentsOf(Unwrap(call).arguments,
                              FunctionOf(Unwrap(call).function_id)).status = "Ok"
        /\ IsSome(resolved) =>
               /\ Unwrap(resolved).status = "Ok"
               /\ Len(Unwrap(resolved).result) = Len(Params)

\* A call that repeats a keyword and passes a positional argument as well was
\* resolved.
ResolveArgumentsDuplicateWitness ==
    /\ pc = "done" /\ IsSome(resolved)
    /\ ~DistinctKeywords(arguments)
    /\ PositionalArgs(arguments) # {}
    /\ Unwrap(resolved).status = "Ok"
\* A call with positional arguments that leaves no slot empty was resolved.
ResolveArgumentsFullWitness ==
    /\ pc = "done" /\ IsSome(resolved)
    /\ Len(arguments) = Len(Params)
    /\ Cardinality(PositionalArgs(arguments)) >= 2
    /\ KeywordArgs(arguments) # {}
    /\ \A i \in 1..Len(Params) : IsSome(Unwrap(resolved).result[i].arg)

====
